---------------------------- MODULE Spec2Model ----------------------------
(***************************************************************************)
(* Model of src/blender_ollama_addon.py: the operator OLLAMA_OT_execute    *)
(* (execute, generate_code and its stream reader, extract_code,            *)
(* validate_syntax and the repair passes fix_blender_api,                  *)
(* fix_parent_child_errors, fix_material_errors, fix_syntax_errors).       *)
(*                                                                         *)
(* Text.  A Python text is a sequence of lines (the text is the lines      *)
(* joined by "\n"; the empty text is << >>).  A line is a record           *)
(* [k, v, ind]: k names the shape of the line, v the variable it is about  *)
(* ("-" when it has none) and ind its                                      *)
(* indentation in units of four spaces.  The shapes and the concrete line  *)
(* each stands for:                                                        *)
(*   importbpy   import bpy                                                *)
(*   importmath  import math                                               *)
(*   blank       (the empty line)                                          *)
(*   ws          (a line of spaces only)                                   *)
(*   comment     # cube                                                    *)
(*   stmt        x = 1                                                     *)
(*   math        r = math.pi                                               *)
(*   ops         bpy.ops.mesh.primitive_cube_add()                         *)
(*   open        bpy.ops.mesh.primitive_cube_add(size=(2)                  *)
(*   active      v = bpy.context.active_object                             *)
(*   new         v = bpy.data.objects.new("n", None)                       *)
(*   link        bpy.context.collection.objects.link(v)                    *)
(*   oldlink     bpy.context.scene.objects.link(v)                         *)
(*   editmode    bpy.ops.object.mode_set(mode='EDIT')                      *)
(*   objmode     bpy.ops.object.mode_set(mode='OBJECT')                    *)
(*   selall      bpy.ops.object.select_all(action='SELECT')                *)
(*   delete      bpy.ops.object.delete()                                   *)
(*   fakeop      bpy.ops.rigging.add()                                     *)
(*   addchild    p.add_child(c)          addchildc   p.add_child(c,)       *)
(*   callchild   print(p.add_child(c))   callchildc  print(p.add_child(c,))*)
(*   parent      c.parent = p            badassign   print(c.parent = p)   *)
(*   setparent   c.set_parent(p)         (repaired to the shape parent)    *)
(*   world       bpy.data.worlds["World"].use_nodes = True                 *)
(*   bad         x = = 1                                                   *)
(*   forclear    for obj in list(bpy.data.objects):                        *)
(*   remove      bpy.data.objects.remove(obj, do_unlink=True)              *)
(*   try         try:                                                      *)
(*   except      except RuntimeError:                                      *)
(*   pass        pass  # Context not available                             *)
(***************************************************************************)
EXTENDS Integers, Sequences, FiniteSets, TLC

L(k, v, ind) == [k |-> k, v |-> v, ind |-> ind]

\* line.strip() == ""
IsWs(l) == l.k \in {"blank", "ws"}

\* A line made of d indentation units and nothing else.
IndentOnly(d) == IF d = 0 THEN L("blank", "-", 0) ELSE L("ws", "-", 0)

\* The text d indentation units followed by the text of line l.
Shift(l, d) ==
  IF IsWs(l) THEN (IF d > 0 THEN L("ws", "-", 0) ELSE l)
  ELSE [l EXCEPT !.ind = @ + d]

\* The empty text has no lines: one empty line and nothing else is "".
Text(t) == IF t = << L("blank", "-", 0) >> THEN << >> ELSE t

\* text.strip() == ""
IsBlankText(t) == \A i \in 1..Len(t) : IsWs(t[i])

RECURSIVE DropLeadingWs(_)
DropLeadingWs(t) ==
  IF t = << >> THEN << >>
  ELSE IF IsWs(Head(t)) THEN DropLeadingWs(Tail(t)) ELSE t

RECURSIVE DropTrailingWs(_)
DropTrailingWs(t) ==
  IF t = << >> THEN << >>
  ELSE IF IsWs(t[Len(t)]) THEN DropTrailingWs(SubSeq(t, 1, Len(t) - 1)) ELSE t

\* str.strip(): leading and trailing white space goes, the indentation of
\* the first remaining line included.
Strip(t) ==
  LET u == DropTrailingWs(DropLeadingWs(t))
  IN IF u = << >> THEN << >> ELSE << [u[1] EXCEPT !.ind = 0] >> \o Tail(u)


(***************************************************************************)
(* extract_code (lines 814-911).  None of the line shapes holds a          *)
(* conversational phrase or a markdown fence, so the preamble patterns     *)
(* (829-836), the fence extraction (839-848) and the phrase filters        *)
(* (862-867, 874-883) leave these texts as they are; what acts on them is  *)
(* the line loop's "code starts at the first import" rule.                 *)
(***************************************************************************)
\* stripped.startswith(('import', 'from'))
StartsImport(l) == l.k \in {"importbpy", "importmath"}

\* stripped.startswith(('import', 'from', 'bpy', '#'))
StartsCode(l) ==
  l.k \in {"importbpy", "importmath", "comment", "ops", "open", "link",
           "oldlink", "editmode", "objmode", "selall", "delete", "fakeop",
           "world", "remove"}

\* The loop of lines 854-887: (lines still to read, code_lines, found_import).
RECURSIVE ExtractLoop(_, _, _)
ExtractLoop(rest, code_lines, found_import) ==
  IF rest = << >> THEN code_lines
  ELSE LET line == Head(rest)
           found == found_import \/ StartsImport(line)
       IN IF code_lines = << >> /\ IsWs(line)
          THEN ExtractLoop(Tail(rest), code_lines, found_import)
          ELSE IF found \/ StartsCode(line)
               THEN ExtractLoop(Tail(rest), Append(code_lines, line), found)
               ELSE ExtractLoop(Tail(rest), code_lines, found)

\* re.search(r'(import bpy.*)', original_text, DOTALL): the text from the
\* first "import bpy" on.
RECURSIVE FromImportBpy(_)
FromImportBpy(t) ==
  IF t = << >> THEN << >>
  ELSE IF Head(t).k = "importbpy"
       THEN << [Head(t) EXCEPT !.ind = 0] >> \o Tail(t)
       ELSE FromImportBpy(Tail(t))

extract_code(text) ==
  IF IsBlankText(text) THEN << >>
  ELSE LET result == Strip(ExtractLoop(text, << >>, FALSE))
           noImport == \A i \in 1..Len(result) : ~StartsImport(result[i])
           found == FromImportBpy(text)
           result2 == IF (result = << >> \/ noImport) /\ found # << >>
                      THEN found ELSE result
       IN IF result2 = << >> THEN Strip(text) ELSE result2

(***************************************************************************)
(* validate_syntax (lines 326-337): ast.parse of the text.  A text parses  *)
(* when none of its lines is malformed and its indentation follows         *)
(* Python's block rule: after a line that opens a block the next code line *)
(* is indented deeper, and any other code line returns to an indentation   *)
(* that is open.  Blank and comment lines do not count.                    *)
(***************************************************************************)
MalformedKinds == {"bad", "badassign", "open"}

OpensBlock(l) == l.k \in {"forclear", "try", "except"}

\* stack: the open indentations, innermost last; opener: the previous code
\* line opened a block.
RECURSIVE IndentOK(_, _, _)
IndentOK(t, stack, opener) ==
  IF t = << >> THEN ~opener
  ELSE LET l == Head(t)
           top == stack[Len(stack)]
       IN IF IsWs(l) \/ l.k = "comment" THEN IndentOK(Tail(t), stack, opener)
          ELSE IF opener
               THEN l.ind > top
                    /\ IndentOK(Tail(t), Append(stack, l.ind), OpensBlock(l))
               ELSE /\ \E i \in 1..Len(stack) : stack[i] = l.ind
                    /\ LET keep == CHOOSE i \in 1..Len(stack) : stack[i] = l.ind
                       IN IndentOK(Tail(t), SubSeq(stack, 1, keep), OpensBlock(l))

\* ast.parse(code) succeeds.
PythonSyntaxOK(code) ==
  /\ \A i \in 1..Len(code) : code[i].k \notin MalformedKinds
  /\ IndentOK(code, << 0 >>, FALSE)

\* TRUE when validate_syntax returns an error message, FALSE when it
\* returns None.
validate_syntax(code) == ~PythonSyntaxOK(code)

(***************************************************************************)
(* A regular expression that matches from inside a line to the end of the  *)
(* line, newline included, and is replaced by nothing: the line's          *)
(* indentation stays and is joined to the next line.  needNL: the pattern  *)
(* ends in \n (needed) rather than \n? (optional).                         *)
(***************************************************************************)
RECURSIVE RemoveToEol(_, _, _)
RemoveToEol(t, kinds, needNL) ==
  IF t = << >> THEN << >>
  ELSE IF Head(t).k \in kinds
       THEN IF Tail(t) = << >>
            THEN (IF needNL THEN t ELSE << IndentOnly(Head(t).ind) >>)
            ELSE RemoveToEol(<< Shift(t[2], Head(t).ind) >> \o Tail(Tail(t)),
                             kinds, needNL)
       ELSE << Head(t) >> \o RemoveToEol(Tail(t), kinds, needNL)

\* fix_parent_child_errors (lines 339-355): p.add_child(c) becomes
\* c.parent = p and c.set_parent(p) becomes c.parent = p, wherever it stands.
FixParentChildLine(l) ==
  CASE l.k = "addchild"  -> [l EXCEPT !.k = "parent"]
    [] l.k = "setparent" -> [l EXCEPT !.k = "parent"]
    [] l.k = "callchild" -> [l EXCEPT !.k = "badassign"]
    [] OTHER -> l

fix_parent_child_errors(code) ==
  [i \in 1..Len(code) |-> FixParentChildLine(code[i])]

\* fix_material_errors (lines 357-412).  Of its patterns the one that
\* matches a line shape is the first, bpy\.data\.world[^\n]*\n? (line 360).
fix_material_errors(code) == Text(RemoveToEol(code, {"world"}, FALSE))


(***************************************************************************)
(* fix_blender_api (lines 414-620) and fix_syntax_errors (622-655), pass   *)
(* by pass.  The enum patterns (481-491), the armature pattern (596-600)   *)
(* and the global bracket balance (644-653) match none of the line shapes. *)
(***************************************************************************)
ClearComment == L("comment", "clear", 0)

\* force_clear (lines 418-424, 437-438), with "import math" added when the
\* code uses math. and does not import it (lines 427-430).
force_clear(needMath) ==
  << L("importbpy", "-", 0), L("blank", "-", 0), ClearComment,
     L("forclear", "-", 0), L("remove", "-", 1) >>
  \o (IF needMath THEN << L("importmath", "-", 0) >> ELSE << >>)
  \o << L("blank", "-", 0) >>

imports_needed(code) ==
  /\ \E i \in 1..Len(code) : code[i].k = "math"
  /\ \A i \in 1..Len(code) : code[i].k # "importmath"

\* Lines 441-442: the old clearing calls go, to the end of their line.
RemoveOldClearing(code) ==
  Text(RemoveToEol(Text(RemoveToEol(code, {"selall"}, TRUE)), {"delete"}, TRUE))

\* \s*\n after a match: the white-space lines that follow, as long as a
\* newline ends them.
RECURSIVE DropWsWithNewline(_)
DropWsWithNewline(t) ==
  IF Len(t) >= 2 /\ IsWs(t[1]) THEN DropWsWithNewline(Tail(t)) ELSE t

\* Lines 444-445: re.sub(r'^import bpy\s*\n', '', code, count=1, MULTILINE).
RECURSIVE RemoveImportBpy(_)
RemoveImportBpy(t) ==
  IF t = << >> THEN << >>
  ELSE IF Head(t).k = "importbpy" /\ Head(t).ind = 0 /\ Tail(t) # << >>
       THEN DropWsWithNewline(Tail(t))
       ELSE << Head(t) >> \o RemoveImportBpy(Tail(t))

\* Lines 454-458: scene.objects.link becomes collection.objects.link.
FixOldApi(code) ==
  [i \in 1..Len(code) |->
     IF code[i].k = "oldlink" THEN [code[i] EXCEPT !.k = "link"] ELSE code[i]]

\* Lines 460-478: a link line whose variable was linked before is dropped.
RECURSIVE DedupeLinks(_, _)
DedupeLinks(t, seen_links) ==
  IF t = << >> THEN << >>
  ELSE LET line == Head(t)
       IN IF line.k \in {"link", "oldlink"}
          THEN IF line.v \in seen_links
               THEN DedupeLinks(Tail(t), seen_links)
               ELSE << line >> \o DedupeLinks(Tail(t), seen_links \cup {line.v})
          ELSE << line >> \o DedupeLinks(Tail(t), seen_links)

\* Lines 494-503: a fake operator call is cut out of its line.
RemoveFakeOperators(code) ==
  [i \in 1..Len(code) |->
     IF code[i].k = "fakeop" THEN IndentOnly(code[i].ind) ELSE code[i]]

\* Lines 509-511: ",)" becomes ")".
CleanCommas(code) ==
  [i \in 1..Len(code) |->
     CASE code[i].k = "addchildc"  -> [code[i] EXCEPT !.k = "addchild"]
       [] code[i].k = "callchildc" -> [code[i] EXCEPT !.k = "callchild"]
       [] OTHER -> code[i]]

\* Lines 514-515: lines of spaces only go, empty lines stay.
RemoveEmptyLines(code) == SelectSeq(code, LAMBDA l : l.k # "ws")

\* 'bpy.ops.mesh.primitive_' in line or 'bpy.ops.object.' in line
IsOpsLine(l) == l.k \in {"ops", "open", "editmode", "objmode", "selall", "delete"}

\* 'collection.objects.link' in line or 'scene.objects.link' in line
IsLinkLine(l) == l.k \in {"link", "oldlink"}

\* The loop of lines 524-591 from line i on.
RECURSIVE LinkLoop(_, _, _, _, _, _)
LinkLoop(lines, i, new_lines, linked_objects, objects_from_ops, in_edit_mode) ==
  IF i > Len(lines) THEN new_lines
  ELSE
    LET line == lines[i]
        edit == IF line.k = "editmode" THEN TRUE
                ELSE IF line.k = "objmode" THEN FALSE ELSE in_edit_mode
        fromOps == IF IsOpsLine(line) /\ i + 1 <= Len(lines)
                      /\ lines[i + 1].k = "active"
                   THEN objects_from_ops \cup {lines[i + 1].v}
                   ELSE objects_from_ops
        dropLink == IsLinkLine(line)
                    /\ (line.v \in fromOps \/ line.v \in linked_objects)
        linked == IF IsLinkLine(line) /\ ~dropLink
                  THEN linked_objects \cup {line.v} ELSE linked_objects
        nextIsLink == i + 1 <= Len(lines) /\ IsLinkLine(lines[i + 1])
        autoLink == /\ ~edit
                    /\ line.k = "new"
                    /\ line.v \notin linked
                    /\ line.v \notin fromOps
                    /\ ~nextIsLink
    IN IF dropLink
       THEN LinkLoop(lines, i + 1, new_lines, linked_objects, fromOps, edit)
       ELSE IF autoLink
            THEN LinkLoop(lines, i + 1,
                          new_lines \o << line, L("link", line.v, line.ind) >>,
                          linked \cup {line.v}, fromOps, edit)
            ELSE LinkLoop(lines, i + 1, Append(new_lines, line),
                          linked, fromOps, edit)

EnsureLinked(code) == LinkLoop(code, 1, << >>, {}, {}, FALSE)

\* Lines 603-615: every mode_set line is wrapped in try/except.
RECURSIVE SafeModeChanges(_)
SafeModeChanges(t) ==
  IF t = << >> THEN << >>
  ELSE LET line == Head(t)
       IN (IF line.k \in {"editmode", "objmode"}
           THEN << L("try", "-", line.ind), [line EXCEPT !.ind = @ + 1],
                   L("except", "-", line.ind), L("pass", "-", line.ind + 1) >>
           ELSE << line >>)
          \o SafeModeChanges(Tail(t))

\* fix_syntax_errors (lines 622-655): a bpy.ops./bpy.data. line with more
\* "(" than ")" gets the missing ")".
fix_syntax_errors(code) ==
  [i \in 1..Len(code) |->
     IF code[i].k = "open" THEN [code[i] EXCEPT !.k = "ops"] ELSE code[i]]

fix_blender_api(code) ==
  LET pre == force_clear(imports_needed(code))
      c1 == RemoveOldClearing(code)
      c2 == IF \E i \in 1..Len(c1) : c1[i].k = "importbpy"
            THEN RemoveImportBpy(c1) ELSE c1
      c3 == pre \o c2
      c4 == DedupeLinks(FixOldApi(c3), {})
      c5 == RemoveFakeOperators(c4)
      c6 == fix_parent_child_errors(c5)
      c7 == RemoveEmptyLines(CleanCommas(c6))
      c8 == EnsureLinked(c7)
      c9 == SafeModeChanges(c8)
  IN fix_syntax_errors(c9)


(***************************************************************************)
(* The state of one invocation of OLLAMA_OT_execute.execute.               *)
(***************************************************************************)
VARIABLES
  REQUESTS_AVAILABLE,  \* lines 19-26: set once, when the module is imported
  ollama_prompt,       \* context.scene.ollama_prompt: "" or a command
  ollama_last_code,    \* context.scene.ollama_last_code
  objects,             \* bpy.data.objects, as a set of names
  pc,                  \* where the invocation stands
  code,                \* the local variable code of generate_code / execute
  stream,              \* the lines the server will send (response.iter_lines())
  pos,                 \* how many of them the reader has taken
  result,              \* what execute returned: "none" while it runs
  reported,            \* the levels self.report was called with
  genStatus,           \* how generate_code ended
  partial,             \* the text the reader held when the stream raised
  requestsSent,        \* calls of requests.post by this invocation
  trace,               \* the calls execute made, in order
  generated,           \* what generate_code returned
  syntax_error,        \* what validate_syntax returned: "unset", "none", "error"
  validated,           \* the texts validate_syntax accepted
  executed,            \* the texts passed to exec, in order
  outcomes,            \* how each exec ended
  ranWithOld,          \* a generated statement ran while an object that
                       \* was in the scene before the exec was still there
  entry                \* the scene as execute found it

vars == << REQUESTS_AVAILABLE, ollama_prompt, ollama_last_code, objects, pc,
           code, stream, pos, result, reported, genStatus, partial,
           requestsSent, trace, generated, syntax_error, validated, executed,
           outcomes, ranWithOld, entry >>

\* Bounds of the model.
MaxRead == 2      \* lines the server sends in one response (Spec)
MaxStream == 3    \* lines of a response given in advance (SpecStream)
MaxLines == 3     \* lines of a generated code (SpecFix)

\* The objects of the scene before the invocation.
SceneObjects == {"Cube", "Light"}

Prompts == {"", "cube"}

\* The texts of the "response" fields the server sends in Spec.
Chunks ==
  { << >>,
    << L("ws", "-", 0) >>,
    << L("stmt", "-", 0) >>,
    << L("importbpy", "-", 0), L("ops", "-", 0) >>,
    << L("importbpy", "-", 0), L("world", "-", 0), L("addchildc", "-", 0) >>,
    << L("importbpy", "-", 0), L("callchildc", "-", 0) >>,
    << L("importbpy", "-", 0), L("bad", "-", 0) >> }

\* The texts of the "response" fields in SpecStream.
StreamChunks ==
  { << >>, << L("importbpy", "-", 0) >>, << L("ops", "-", 0) >> }

(***************************************************************************)
(* A line of the streamed response: an empty line (blank), a line          *)
(* json.loads rejects (badjson), a line that is JSON but no object, on     *)
(* which "response" in data or data.get raises (nonobj), the point where   *)
(* iter_lines itself raises (ioerr), or a JSON object (obj) with or        *)
(* without a "response" and with "done" absent, false or true.             *)
(***************************************************************************)
PlainLine(t) == [t |-> t, hasResp |-> FALSE, resp |-> << >>, done |-> "absent"]

LinesOver(chunks) ==
  { PlainLine(t) : t \in {"blank", "badjson", "nonobj", "ioerr"} }
  \cup [t : {"obj"}, hasResp : {FALSE}, resp : {<< >>},
        done : {"absent", "false", "true"}]
  \cup [t : {"obj"}, hasResp : {TRUE}, resp : chunks,
        done : {"absent", "false", "true"}]

SeqsUpTo(S, n) == UNION { [1..m -> S] : m \in 0..n }

\* How an exec can end: no exception, an AttributeError whose message
\* holds add_child/set_parent (parent) or world/BlendData (world), or one
\* of the other exceptions the handlers of lines 260-279 tell apart.
NoExc == [exc |-> "none", parent |-> FALSE, world |-> FALSE]

ExecOutcomes ==
  { NoExc }
  \cup [exc : {"AttributeError"}, parent : BOOLEAN, world : BOOLEAN]
  \cup [exc : {"SyntaxError", "ConnectionError", "Exception"},
        parent : {FALSE}, world : {FALSE}]

\* "# SYNTAX ERROR:\n# {syntax_error}\n\n" (line 207)
SyntaxErrorNote ==
  << L("comment", "err", 0), L("comment", "err", 0), L("blank", "-", 0) >>

\* What an earlier, successful invocation left in ollama_last_code.
PriorCode ==
  fix_material_errors(fix_blender_api(<< L("importbpy", "-", 0), L("ops", "-", 0) >>))

Init ==
  /\ REQUESTS_AVAILABLE \in BOOLEAN
  /\ ollama_prompt = ""
  /\ ollama_last_code \in { << >>, PriorCode }
  /\ objects \in SUBSET SceneObjects
  /\ pc = "idle"
  /\ code = << >>
  /\ stream = << >>
  /\ pos = 0
  /\ result = "none"
  /\ reported = {}
  /\ genStatus = "none"
  /\ partial = << >>
  /\ requestsSent = 0
  /\ trace = << >>
  /\ generated = << >>
  /\ syntax_error = "unset"
  /\ validated = {}
  /\ executed = << >>
  /\ outcomes = << >>
  /\ ranWithOld = FALSE
  /\ entry = [objects |-> objects, last_code |-> ollama_last_code]

\* The user types a command in the panel (lines 943, 991-995).
SetPrompt ==
  /\ pc = "idle"
  /\ \E p \in Prompts : p # ollama_prompt /\ ollama_prompt' = p
  /\ UNCHANGED << REQUESTS_AVAILABLE, ollama_last_code, objects, pc, code,
                  stream, pos, result, reported, genStatus, partial,
                  requestsSent, trace, generated, syntax_error, validated,
                  executed, outcomes, ranWithOld, entry >>

\* ExecuteEntry without the check of line 154: an empty prompt goes on to
\* generate_code.
ExecuteEntry_NoPromptCheck ==
  /\ pc = "idle"
  /\ IF ~REQUESTS_AVAILABLE
     THEN reported' = {"ERROR"} /\ result' = "CANCELLED" /\ pc' = "done"
     ELSE reported' = {"INFO"} /\ result' = "none" /\ pc' = "post"
  /\ entry' = [objects |-> objects, last_code |-> ollama_last_code]
  /\ UNCHANGED << REQUESTS_AVAILABLE, ollama_prompt, ollama_last_code, objects,
                  code, stream, pos, genStatus, partial, requestsSent, trace,
                  generated, syntax_error, validated, executed, outcomes,
                  ranWithOld >>

\* execute, lines 134-165: the two early returns, or on to generate_code.
ExecuteEntry ==
  /\ pc = "idle"
  /\ IF ~REQUESTS_AVAILABLE
     THEN reported' = {"ERROR"} /\ result' = "CANCELLED" /\ pc' = "done"
     ELSE IF ollama_prompt = ""
          THEN reported' = {"WARNING"} /\ result' = "CANCELLED" /\ pc' = "done"
          ELSE reported' = {"INFO"} /\ result' = "none" /\ pc' = "post"
  /\ entry' = [objects |-> objects, last_code |-> ollama_last_code]
  /\ UNCHANGED << REQUESTS_AVAILABLE, ollama_prompt, ollama_last_code, objects,
                  code, stream, pos, genStatus, partial, requestsSent, trace,
                  generated, syntax_error, validated, executed, outcomes,
                  ranWithOld >>

\* generate_code, lines 727-766: the request, and the three handlers that
\* return "".
Post ==
  /\ pc = "post"
  /\ requestsSent' = requestsSent + 1
  /\ trace' = Append(trace, "generate_code")
  /\ code' = << >>
  /\ \E r \in {"ok", "ConnectionError", "Timeout", "HTTPError"} :
       IF r = "ok"
       THEN pc' = "stream" /\ UNCHANGED << genStatus, generated >>
       ELSE pc' = "returned" /\ genStatus' = r /\ generated' = << >>
  /\ UNCHANGED << REQUESTS_AVAILABLE, ollama_prompt, ollama_last_code, objects,
                  stream, pos, result, reported, partial, syntax_error,
                  validated, executed, outcomes, ranWithOld, entry >>


\* ReadLine with the done test of line 783 moved before the append of
\* line 777: the text of the done line is lost.
ReadLine_DoneFirst(l) ==
  /\ pc = "stream"
  /\ CASE l.t \in {"blank", "badjson"} ->
            UNCHANGED << code, pc, genStatus, partial, generated >>
       [] l.t \in {"nonobj", "ioerr"} ->
            /\ partial' = code
            /\ code' = << >>
            /\ generated' = << >>
            /\ genStatus' = "StreamError"
            /\ pc' = "returned"
       [] l.t = "obj" ->
            /\ code' = IF l.hasResp /\ l.done # "true" THEN code \o l.resp ELSE code
            /\ pc' = IF l.done = "true" THEN "post_stream" ELSE "stream"
            /\ UNCHANGED << genStatus, partial, generated >>
  /\ UNCHANGED << REQUESTS_AVAILABLE, ollama_prompt, ollama_last_code, objects,
                  result, reported, requestsSent, trace, syntax_error,
                  validated, executed, outcomes, ranWithOld, entry >>

\* ReadLine with the handler of lines 791-795 breaking out of the loop
\* instead of returning "": what was received so far is kept.
ReadLine_KeepsPartial(l) ==
  /\ pc = "stream"
  /\ CASE l.t \in {"blank", "badjson"} ->
            UNCHANGED << code, pc, genStatus, partial, generated >>
       [] l.t \in {"nonobj", "ioerr"} ->
            /\ partial' = code
            /\ generated' = Strip(code)
            /\ code' = Strip(code)
            /\ genStatus' = "StreamError"
            /\ pc' = "returned"
       [] l.t = "obj" ->
            /\ code' = IF l.hasResp THEN code \o l.resp ELSE code
            /\ pc' = IF l.done = "true" THEN "post_stream" ELSE "stream"
            /\ UNCHANGED << genStatus, partial, generated >>
  /\ UNCHANGED << REQUESTS_AVAILABLE, ollama_prompt, ollama_last_code, objects,
                  result, reported, requestsSent, trace, syntax_error,
                  validated, executed, outcomes, ranWithOld, entry >>

\* One turn of the loop of lines 770-795 on line l of the response.
ReadLine(l) ==
  /\ pc = "stream"
  /\ CASE l.t \in {"blank", "badjson"} ->
            UNCHANGED << code, pc, genStatus, partial, generated >>
       [] l.t \in {"nonobj", "ioerr"} ->
            /\ partial' = code
            /\ code' = << >>
            /\ generated' = << >>
            /\ genStatus' = "StreamError"
            /\ pc' = "returned"
       [] l.t = "obj" ->
            /\ code' = IF l.hasResp THEN code \o l.resp ELSE code
            /\ pc' = IF l.done = "true" THEN "post_stream" ELSE "stream"
            /\ UNCHANGED << genStatus, partial, generated >>
  /\ UNCHANGED << REQUESTS_AVAILABLE, ollama_prompt, ollama_last_code, objects,
                  result, reported, requestsSent, trace, syntax_error,
                  validated, executed, outcomes, ranWithOld, entry >>

\* The server sends one more line, whatever it is.
ServerSends ==
  /\ pos < MaxRead
  /\ \E l \in LinesOver(Chunks) : ReadLine(l)
  /\ pos' = pos + 1
  /\ UNCHANGED stream

\* The reader takes the next line of a response given in advance.
StreamRead ==
  /\ pos < Len(stream)
  /\ ReadLine(stream[pos + 1])
  /\ pos' = pos + 1
  /\ UNCHANGED stream

\* iter_lines is exhausted: the for loop of line 770 ends.
EndOfStream ==
  /\ pc = "stream"
  /\ pc' = "post_stream"
  /\ UNCHANGED << REQUESTS_AVAILABLE, ollama_prompt, ollama_last_code, objects,
                  code, stream, pos, result, reported, genStatus, partial,
                  requestsSent, trace, generated, syntax_error, validated,
                  executed, outcomes, ranWithOld, entry >>

StreamEnd == pos = Len(stream) /\ EndOfStream

\* generate_code, lines 797-812: what the reader collected is returned
\* through extract_code, or "" when nothing is left.
FinishGenerate ==
  /\ pc = "post_stream"
  /\ LET extracted == extract_code(code)
         status == IF IsBlankText(code) THEN "EmptyResponse"
                   ELSE IF IsBlankText(extracted) THEN "EmptyExtraction"
                   ELSE "ok"
         returned == IF status = "ok" THEN Strip(extracted) ELSE << >>
     IN /\ genStatus' = status
        /\ code' = returned
        /\ generated' = returned
  /\ pc' = "returned"
  /\ UNCHANGED << REQUESTS_AVAILABLE, ollama_prompt, ollama_last_code, objects,
                  stream, pos, result, reported, partial, requestsSent, trace,
                  syntax_error, validated, executed, outcomes, ranWithOld, entry >>

\* execute, lines 170-175: nothing generated, nothing done.
CheckGenerated ==
  /\ pc = "returned"
  /\ IF IsBlankText(code)
     THEN /\ reported' = reported \cup {"ERROR"}
          /\ result' = "CANCELLED"
          /\ pc' = "done"
     ELSE pc' = "fix_api" /\ UNCHANGED << reported, result >>
  /\ UNCHANGED << REQUESTS_AVAILABLE, ollama_prompt, ollama_last_code, objects,
                  code, stream, pos, genStatus, partial, requestsSent, trace,
                  generated, syntax_error, validated, executed, outcomes,
                  ranWithOld, entry >>

\* execute, line 185.
FixBlenderApi ==
  /\ pc = "fix_api"
  /\ code' = fix_blender_api(code)
  /\ trace' = Append(trace, "fix_blender_api")
  /\ pc' = "fix_mat"
  /\ UNCHANGED << REQUESTS_AVAILABLE, ollama_prompt, ollama_last_code, objects,
                  stream, pos, result, reported, genStatus, partial,
                  requestsSent, generated, syntax_error, validated, executed,
                  outcomes, ranWithOld, entry >>

\* execute, line 188.
FixMaterial ==
  /\ pc = "fix_mat"
  /\ code' = fix_material_errors(code)
  /\ trace' = Append(trace, "fix_material_errors")
  /\ pc' = "validate"
  /\ UNCHANGED << REQUESTS_AVAILABLE, ollama_prompt, ollama_last_code, objects,
                  stream, pos, result, reported, genStatus, partial,
                  requestsSent, generated, syntax_error, validated, executed,
                  outcomes, ranWithOld, entry >>

\* ValidateSyntax without the return of line 208: the error is reported
\* and the code is executed all the same.
ValidateSyntax_NoReturn ==
  /\ pc = "validate"
  /\ trace' = Append(trace, "validate_syntax")
  /\ IF validate_syntax(code)
     THEN /\ syntax_error' = "error"
          /\ reported' = reported \cup {"ERROR"}
          /\ ollama_last_code' = SyntaxErrorNote \o code
          /\ pc' = "exec"
          /\ UNCHANGED << validated, result >>
     ELSE /\ syntax_error' = "none"
          /\ validated' = validated \cup {code}
          /\ pc' = "exec"
          /\ UNCHANGED << reported, ollama_last_code, result >>
  /\ UNCHANGED << REQUESTS_AVAILABLE, ollama_prompt, objects, code, stream, pos,
                  genStatus, partial, requestsSent, generated, executed,
                  outcomes, ranWithOld, entry >>

\* execute, lines 197-208.
ValidateSyntax ==
  /\ pc = "validate"
  /\ trace' = Append(trace, "validate_syntax")
  /\ IF validate_syntax(code)
     THEN /\ syntax_error' = "error"
          /\ reported' = reported \cup {"ERROR"}
          /\ ollama_last_code' = SyntaxErrorNote \o code
          /\ result' = "CANCELLED"
          /\ pc' = "done"
          /\ UNCHANGED validated
     ELSE /\ syntax_error' = "none"
          /\ validated' = validated \cup {code}
          /\ pc' = "exec"
          /\ UNCHANGED << reported, ollama_last_code, result >>
  /\ UNCHANGED << REQUESTS_AVAILABLE, ollama_prompt, objects, code, stream, pos,
                  genStatus, partial, requestsSent, generated, executed,
                  outcomes, ranWithOld, entry >>


(***************************************************************************)
(* exec(code, exec_globals), lines 219, 231, 238.  The code starts with    *)
(* the clearing loop of force_clear; the code lines that follow the loop's *)
(* one statement and are indented belong to the loop's body, and run once  *)
(* for every object the scene held, each time after that object is         *)
(* removed.                                                                *)
(***************************************************************************)
IsCodeLine(l) == ~IsWs(l) /\ l.k # "comment"

\* The leading lines of t that continue an open block.
RECURSIVE BlockBody(_)
BlockBody(t) ==
  IF t = << >> THEN << >>
  ELSE IF ~IsCodeLine(Head(t)) THEN BlockBody(Tail(t))
       ELSE IF Head(t).ind >= 1 THEN << Head(t) >> \o BlockBody(Tail(t))
            ELSE << >>

\* The lines of t after the block its leading lines continue.
RECURSIVE AfterBlock(_)
AfterBlock(t) ==
  IF t = << >> THEN << >>
  ELSE IF ~IsCodeLine(Head(t)) \/ Head(t).ind >= 1 THEN AfterBlock(Tail(t))
       ELSE t

HasClearLoop(c) ==
  Len(c) >= 5 /\ c[4] = L("forclear", "-", 0) /\ c[5] = L("remove", "-", 1)

\* The statements of the generated code that ended up in the body of the
\* clearing loop, and the lines after the loop.
ClearLoopBody(c) ==
  IF HasClearLoop(c) THEN BlockBody(SubSeq(c, 6, Len(c))) ELSE << >>

AfterClearLoop(c) ==
  IF HasClearLoop(c) THEN AfterBlock(SubSeq(c, 6, Len(c))) ELSE c

\* bpy.ops.mesh.primitive_cube_add() and bpy.data.objects.new(...) add an
\* object to bpy.data.objects.
Creates(t) == \E i \in 1..Len(t) : t[i].k \in {"ops", "new"}

\* The objects the run of c can add to a scene that held pre.
Created(c, pre) ==
  IF Creates(AfterClearLoop(c)) \/ (Creates(ClearLoopBody(c)) /\ pre # {})
  THEN {"Gen"} ELSE {}

\* The scene after exec(code) ended as o.  A text that does not compile
\* raises SyntaxError before any of it runs.
ExecRuns(o) ==
  IF ~PythonSyntaxOK(code)
  THEN o.exc = "SyntaxError" /\ UNCHANGED << objects, ranWithOld >>
  ELSE /\ ranWithOld' = (ranWithOld \/ (ClearLoopBody(code) # << >>
                                        /\ Cardinality(objects) >= 2))
       /\ IF o.exc = "none"
          THEN objects' = Created(code, objects)
          ELSE IF ClearLoopBody(code) = << >>
               THEN objects' \in SUBSET Created(code, objects)
               ELSE objects' \in SUBSET (objects \cup Created(code, objects))

\* Exec1 without the "else: raise" of lines 239-240: any AttributeError is
\* repaired with fix_material_errors and the code run again.
Exec1_RetryAnyAttributeError ==
  /\ pc = "exec"
  /\ \E o \in ExecOutcomes :
       /\ ExecRuns(o)
       /\ executed' = Append(executed, code)
       /\ outcomes' = Append(outcomes, o)
       /\ CASE o.exc = "none" ->
                 /\ trace' = Append(trace, "exec")
                 /\ pc' = "post_exec"
                 /\ UNCHANGED << code, result, reported >>
            [] o.exc = "AttributeError" /\ o.parent ->
                 /\ code' = fix_parent_child_errors(code)
                 /\ trace' = trace \o << "exec", "fix_parent_child_errors" >>
                 /\ pc' = "exec2"
                 /\ UNCHANGED << result, reported >>
            [] o.exc = "AttributeError" /\ ~o.parent ->
                 /\ code' = fix_material_errors(code)
                 /\ trace' = trace \o << "exec", "fix_material_errors" >>
                 /\ pc' = "exec2"
                 /\ UNCHANGED << result, reported >>
            [] OTHER ->
                 /\ trace' = Append(trace, "exec")
                 /\ reported' = reported \cup {"ERROR"}
                 /\ result' = "CANCELLED"
                 /\ pc' = "done"
                 /\ UNCHANGED code
  /\ UNCHANGED << REQUESTS_AVAILABLE, ollama_prompt, ollama_last_code, stream,
                  pos, genStatus, partial, requestsSent, generated,
                  syntax_error, validated, entry >>

\* execute, lines 210-240: the first exec and the AttributeError handler
\* up to the repair; any other exception goes to the handlers of 260-279.
Exec1 ==
  /\ pc = "exec"
  /\ \E o \in ExecOutcomes :
       /\ ExecRuns(o)
       /\ executed' = Append(executed, code)
       /\ outcomes' = Append(outcomes, o)
       /\ CASE o.exc = "none" ->
                 /\ trace' = Append(trace, "exec")
                 /\ pc' = "post_exec"
                 /\ UNCHANGED << code, result, reported >>
            [] o.exc = "AttributeError" /\ o.parent ->
                 /\ code' = fix_parent_child_errors(code)
                 /\ trace' = trace \o << "exec", "fix_parent_child_errors" >>
                 /\ pc' = "exec2"
                 /\ UNCHANGED << result, reported >>
            [] o.exc = "AttributeError" /\ ~o.parent /\ o.world ->
                 /\ code' = fix_material_errors(code)
                 /\ trace' = trace \o << "exec", "fix_material_errors" >>
                 /\ pc' = "exec2"
                 /\ UNCHANGED << result, reported >>
            [] OTHER ->
                 /\ trace' = Append(trace, "exec")
                 /\ reported' = reported \cup {"ERROR"}
                 /\ result' = "CANCELLED"
                 /\ pc' = "done"
                 /\ UNCHANGED code
  /\ UNCHANGED << REQUESTS_AVAILABLE, ollama_prompt, ollama_last_code, stream,
                  pos, genStatus, partial, requestsSent, generated,
                  syntax_error, validated, entry >>

\* execute, lines 231 and 238: the exec of the repaired code; whatever it
\* raises goes to the handlers of lines 260-279.
Exec2 ==
  /\ pc = "exec2"
  /\ \E o \in ExecOutcomes :
       /\ ExecRuns(o)
       /\ executed' = Append(executed, code)
       /\ outcomes' = Append(outcomes, o)
       /\ trace' = Append(trace, "exec")
       /\ IF o.exc = "none"
          THEN pc' = "post_exec" /\ UNCHANGED << result, reported >>
          ELSE /\ reported' = reported \cup {"ERROR"}
               /\ result' = "CANCELLED"
               /\ pc' = "done"
  /\ UNCHANGED << REQUESTS_AVAILABLE, ollama_prompt, ollama_last_code, code,
                  stream, pos, genStatus, partial, requestsSent, generated,
                  syntax_error, validated, entry >>

\* execute, lines 242-258 and 281.  The materials and the viewport shading
\* that lines 243-254 touch are not part of the state; an exception they
\* raise is caught at line 271 like any other.
Finish ==
  /\ pc = "post_exec"
  /\ \E raised \in BOOLEAN :
       IF raised
       THEN /\ reported' = reported \cup {"ERROR"}
            /\ result' = "CANCELLED"
            /\ UNCHANGED ollama_last_code
       ELSE /\ ollama_last_code' = code
            /\ reported' = reported \cup {"INFO"}
            /\ result' = "FINISHED"
  /\ pc' = "done"
  /\ UNCHANGED << REQUESTS_AVAILABLE, ollama_prompt, objects, code, stream, pos,
                  genStatus, partial, requestsSent, trace, generated,
                  syntax_error, validated, executed, outcomes, ranWithOld, entry >>

Next ==
  \/ SetPrompt
  \/ ExecuteEntry
  \/ Post
  \/ ServerSends
  \/ EndOfStream
  \/ FinishGenerate
  \/ CheckGenerated
  \/ FixBlenderApi
  \/ FixMaterial
  \/ ValidateSyntax
  \/ Exec1
  \/ Exec2
  \/ Finish

Spec == Init /\ [][Next]_vars

(***************************************************************************)
(* SpecStream: the stream reader of generate_code on every response of up  *)
(* to MaxStream lines.                                                     *)
(***************************************************************************)
InitStream ==
  /\ REQUESTS_AVAILABLE = TRUE
  /\ ollama_prompt = "cube"
  /\ ollama_last_code = << >>
  /\ objects = SceneObjects
  /\ pc = "stream"
  /\ code = << >>
  /\ stream \in SeqsUpTo(LinesOver(StreamChunks), MaxStream)
  /\ pos = 0
  /\ result = "none"
  /\ reported = {"INFO"}
  /\ genStatus = "none"
  /\ partial = << >>
  /\ requestsSent = 1
  /\ trace = << "generate_code" >>
  /\ generated = << >>
  /\ syntax_error = "unset"
  /\ validated = {}
  /\ executed = << >>
  /\ outcomes = << >>
  /\ ranWithOld = FALSE
  /\ entry = [objects |-> objects, last_code |-> ollama_last_code]

NextStream == StreamRead \/ StreamEnd

SpecStream == InitStream /\ [][NextStream]_vars

(***************************************************************************)
(* SpecFix: execute from line 185 on, for every generated code of up to    *)
(* MaxLines lines that generate_code can return (stripped, not blank).     *)
(***************************************************************************)
FixAlphabet ==
  { L("importbpy", "-", 0), L("blank", "-", 0),
    L("stmt", "-", 0), L("stmt", "-", 1), L("ops", "-", 0), L("ops", "-", 1),
    L("new", "a", 0), L("new", "b", 0), L("link", "a", 0), L("link", "b", 0),
    L("active", "a", 0), L("editmode", "-", 0), L("objmode", "-", 0) }

IsStripped(t) ==
  t # << >> /\ ~IsWs(t[1]) /\ t[1].ind = 0 /\ ~IsWs(t[Len(t)])

FixInputs == { t \in SeqsUpTo(FixAlphabet, MaxLines) : IsStripped(t) }

InitFix ==
  /\ REQUESTS_AVAILABLE = TRUE
  /\ ollama_prompt = "cube"
  /\ ollama_last_code = << >>
  /\ objects \in {{}, SceneObjects}
  /\ pc = "fix_api"
  /\ code \in FixInputs
  /\ stream = << >>
  /\ pos = 0
  /\ result = "none"
  /\ reported = {"INFO"}
  /\ genStatus = "ok"
  /\ partial = << >>
  /\ requestsSent = 1
  /\ trace = << "generate_code" >>
  /\ generated = code
  /\ syntax_error = "unset"
  /\ validated = {}
  /\ executed = << >>
  /\ outcomes = << >>
  /\ ranWithOld = FALSE
  /\ entry = [objects |-> objects, last_code |-> ollama_last_code]

NextFix ==
  \/ FixBlenderApi
  \/ FixMaterial
  \/ ValidateSyntax
  \/ Exec1
  \/ Exec2
  \/ Finish

SpecFix == InitFix /\ [][NextFix]_vars


(***************************************************************************)
(* The claims.                                                             *)
(***************************************************************************)

\* C1: the generated code is first executed only after generate_code
\* returned non-blank text, then fix_blender_api, then fix_material_errors
\* were applied to it and validate_syntax returned no error, in this order;
\* when validate_syntax reports an error nothing is executed and execute
\* returns CANCELLED.  (Spec)
C1_ExecAfterPipeline ==
  /\ executed # << >> =>
       /\ Len(trace) >= 5
       /\ SubSeq(trace, 1, 5) = << "generate_code", "fix_blender_api",
                                   "fix_material_errors", "validate_syntax",
                                   "exec" >>
       /\ ~IsBlankText(generated)
       /\ executed[1] = fix_material_errors(fix_blender_api(generated))
       /\ syntax_error = "none"
       /\ ~validate_syntax(executed[1])
  /\ syntax_error = "error" =>
       /\ executed = << >>
       /\ pc = "done"
       /\ result = "CANCELLED"

\* The code was generated, repaired, validated and executed once.
C1_Witness ==
  /\ pc = "done"
  /\ result = "FINISHED"
  /\ Len(executed) = 1
  /\ executed[1] # generated

\* The index of the first line whose done flag is true, or the length of
\* the response when it has none.
StopIndex(s) ==
  IF \E i \in 1..Len(s) : s[i].t = "obj" /\ s[i].done = "true"
  THEN CHOOSE i \in 1..Len(s) :
         /\ s[i].t = "obj" /\ s[i].done = "true"
         /\ \A j \in 1..(i - 1) : ~(s[j].t = "obj" /\ s[j].done = "true")
  ELSE Len(s)

\* The "response" fields of the JSON objects among the first n lines, in
\* the order of arrival.
RECURSIVE ResponsesUpTo(_, _)
ResponsesUpTo(s, n) ==
  IF n = 0 THEN << >>
  ELSE ResponsesUpTo(s, n - 1)
       \o (IF s[n].t = "obj" /\ s[n].hasResp THEN s[n].resp ELSE << >>)

\* A line up to the stop raises while it is read (the case of C4).
RaisesBeforeStop(s) ==
  \E i \in 1..StopIndex(s) : s[i].t \in {"nonobj", "ioerr"}

GenFailures ==
  {"ConnectionError", "Timeout", "HTTPError", "StreamError", "EmptyResponse",
   "EmptyExtraction"}

\* C3: when code generation fails, execute falls back to a hard-coded
\* template and still builds the object, instead of ending with nothing
\* built.  (Spec)
C3_FallbackBuilds ==
  (pc = "done" /\ genStatus \in GenFailures) =>
    /\ result = "FINISHED"
    /\ executed # << >>
    /\ "Gen" \in objects

\* C4: generate_code returns "" for a connection error, a timeout, an HTTP
\* error status and an exception raised while the stream is read (what was
\* received is dropped); execute then reports an error, returns CANCELLED
\* and executes nothing.  (Spec)
C4_FailureReturnsEmpty ==
  genStatus \in {"ConnectionError", "Timeout", "HTTPError", "StreamError"} =>
    /\ pc \in {"returned", "done"}
    /\ generated = << >>
    /\ code = << >>
    /\ executed = << >>
    /\ objects = entry.objects
    /\ pc = "done" => (result = "CANCELLED" /\ "ERROR" \in reported)

\* The stream raised after code had been received, and execute is over.
C4_Witness ==
  /\ pc = "done"
  /\ genStatus = "StreamError"
  /\ ~IsBlankText(partial)
  /\ result = "CANCELLED"

\* C5: with an empty prompt or without the requests module, execute
\* returns CANCELLED, sends no request, executes nothing and leaves the
\* objects of the scene and ollama_last_code as they were.  (Spec)
C5_EarlyCancel ==
  (pc # "idle" /\ (~REQUESTS_AVAILABLE \/ ollama_prompt = "")) =>
    /\ pc = "done"
    /\ result = "CANCELLED"
    /\ requestsSent = 0
    /\ executed = << >>
    /\ objects = entry.objects
    /\ ollama_last_code = entry.last_code

\* The prompt was emptied again and execute called, in a scene with
\* objects and an earlier code.
C5_Witness ==
  /\ pc = "done"
  /\ REQUESTS_AVAILABLE
  /\ ollama_prompt = ""
  /\ objects = SceneObjects
  /\ ollama_last_code = PriorCode

\* C6: every text passed to exec, the one executed again after a repair
\* included, was accepted by validate_syntax exactly as it is executed.
\* (Spec)
C6_ExecOnlyValidated ==
  \A i \in 1..Len(executed) : executed[i] \in validated

Repairable(o) == o.exc = "AttributeError" /\ (o.parent \/ o.world)

C8_PreambleClearsFirst ==
  /\ pc # "fix_api" =>
       /\ Len(code) >= 5
       /\ SubSeq(code, 1, 5) = SubSeq(force_clear(FALSE), 1, 5)
  /\ ~ranWithOld

\* In the text c, line i stands after a mode_set to EDIT that no mode_set
\* to OBJECT has followed yet.
InEditModeAt(c, i) ==
  \E e \in 1..(i - 1) :
    /\ c[e].k = "editmode"
    /\ \A j \in (e + 1)..(i - 1) : c[j].k # "objmode"

\* C9: in the code fix_blender_api returns, every line
\* v = bpy.data.objects.new(...) outside edit mode is followed by a line
\* collection.objects.link(v).  (SpecFix)
C9_CreationsLinked ==
  pc = "fix_mat" =>
    \A i \in 1..Len(code) :
      (code[i].k = "new" /\ ~InEditModeAt(code, i)) =>
        \E j \in (i + 1)..Len(code) :
          code[j].k = "link" /\ code[j].v = code[i].v

=============================================================================
